---------------------------- MODULE Spec2Model ----------------------------
(***************************************************************************)
(* generate_tree (src/generate_tree.py): print a header, then walk the     *)
(* directory tree with os.walk (top-down, errors of the directory listing  *)
(* ignored, symbolic links not followed), pruning the excluded directory   *)
(* names in place and printing one line per visited directory and file.    *)
(*                                                                         *)
(* Text is modelled character by character: a string is a sequence of      *)
(* one-character strings.  The box-drawing characters of the source are    *)
(* written by their code points ("u2502" is one character).                *)
(*                                                                         *)
(* The filesystem is a tree of real directories and regular files.  Entry  *)
(* i of fs is a directory entry with a parent (0 is the traversal root),   *)
(* a kind and a name; a directory lists its entries in ascending i, which  *)
(* is the enumeration order of os.scandir (names are assigned freely, so   *)
(* every order of names occurs).  bad holds the directories whose listing  *)
(* fails (unreadable, removed, or, for 0, a root that does not exist or is *)
(* not a directory).                                                       *)
(***************************************************************************)
EXTENDS Integers, Sequences, FiniteSets

VARIABLES cwd, startpath, fs, bad, pc, stack, out, scanned, visits, run, mark

vars == <<cwd, startpath, fs, bad, pc, stack, out, scanned, visits, run, mark>>

----------------------------------------------------------------------------
(* Bounds of the model *)

MaxEntries == 4

----------------------------------------------------------------------------
(* Characters and strings *)

SEP == "/"

BOX_V == "u2502"
BOX_VR == "u251C"
BOX_H == "u2500"
BOX_UR == "u2514"

SeparatorWidth == 40

exclude_dirs ==
    { <<"m","o","d","u","l","e","s">>,
      <<"n","o","d","e","_","m","o","d","u","l","e","s">>,
      <<".","g","i","t">>,
      <<"_","_","p","y","c","a","c","h","e","_","_">>,
      <<".","v","s","c","o","d","e">>,
      <<"d","i","s","t">>,
      <<"b","u","i","l","d">> }

IndentUnit == <<BOX_V, " ", " ", " ">>

BranchConnector == <<BOX_VR, BOX_H, BOX_H, " ">>

LastConnector == <<BOX_UR, BOX_H, BOX_H, " ">>

HeaderPrefix ==
    <<"P","r","o","j","e","c","t"," ","S","t","r","u","c","t","u","r","e",":"," ">>

RECURSIVE Repeat(_, _)
(* s * n of Python: n copies of s, the empty string for n <= 0 *)
Repeat(s, n) == IF n <= 0 THEN <<>> ELSE s \o Repeat(s, n - 1)

RECURSIVE Count(_, _)
(* str.count of a one-character string *)
Count(s, c) ==
    IF s = <<>> THEN 0
    ELSE (IF Head(s) = c THEN 1 ELSE 0) + Count(Tail(s), c)

StartsWith(s, p) == Len(s) >= Len(p) /\ SubSeq(s, 1, Len(p)) = p

EndsWith(s, p) == Len(s) >= Len(p) /\ SubSeq(s, Len(s) - Len(p) + 1, Len(s)) = p

RECURSIVE Replace(_, _)
(* str.replace(old, ''): every non-overlapping occurrence of old, found    *)
(* left to right, is removed (old is not empty)                            *)
Replace(s, old) ==
    IF Len(s) < Len(old) THEN s
    ELSE IF SubSeq(s, 1, Len(old)) = old
         THEN Replace(SubSeq(s, Len(old) + 1, Len(s)), old)
         ELSE <<Head(s)>> \o Replace(Tail(s), old)

RECURSIVE RFind(_, _)
(* str.rfind of a one-character string, 0-based, -1 when absent *)
RFind(s, c) ==
    IF s = <<>> THEN -1
    ELSE IF s[Len(s)] = c THEN Len(s) - 1
         ELSE RFind(SubSeq(s, 1, Len(s) - 1), c)

(* posixpath.basename: what follows the last separator *)
basename(p) == SubSeq(p, RFind(p, SEP) + 2, Len(p))

(* posixpath.join of two components *)
join(a, b) ==
    IF StartsWith(b, <<SEP>>) THEN b
    ELSE IF a = <<>> \/ EndsWith(a, <<SEP>>) THEN a \o b
         ELSE a \o <<SEP>> \o b

RECURSIVE Split(_, _)
(* str.split(sep): the components between the separators, empty ones kept *)
Split(s, c) ==
    IF RFind(s, c) = -1 THEN <<s>>
    ELSE Append(Split(SubSeq(s, 1, RFind(s, c)), c),
                SubSeq(s, RFind(s, c) + 2, Len(s)))

RECURSIVE JoinWith(_, _)
(* sep.join(comps) *)
JoinWith(comps, c) ==
    IF comps = <<>> THEN <<>>
    ELSE IF Len(comps) = 1 THEN comps[1]
         ELSE comps[1] \o <<c>> \o JoinWith(Tail(comps), c)

DOT == <<".">>

DOTDOT == <<".", ".">>

RECURSIVE NormComps(_, _, _)
(* the loop of posixpath.normpath over the components *)
NormComps(comps, acc, initial_slashes) ==
    IF comps = <<>> THEN acc
    ELSE LET comp == Head(comps)
             rest == Tail(comps)
         IN IF comp = <<>> \/ comp = DOT
            THEN NormComps(rest, acc, initial_slashes)
            ELSE IF comp # DOTDOT
                    \/ (initial_slashes = 0 /\ acc = <<>>)
                    \/ (acc # <<>> /\ acc[Len(acc)] = DOTDOT)
                 THEN NormComps(rest, Append(acc, comp), initial_slashes)
                 ELSE IF acc # <<>>
                      THEN NormComps(rest, SubSeq(acc, 1, Len(acc) - 1), initial_slashes)
                      ELSE NormComps(rest, acc, initial_slashes)

(* posixpath.normpath *)
normpath(path) ==
    IF path = <<>> THEN DOT
    ELSE LET initial_slashes ==
                 IF ~StartsWith(path, <<SEP>>) THEN 0
                 ELSE IF StartsWith(path, <<SEP, SEP>>) /\ ~StartsWith(path, <<SEP, SEP, SEP>>)
                      THEN 2 ELSE 1
             body == JoinWith(NormComps(Split(path, SEP), <<>>, initial_slashes), SEP)
             res == Repeat(<<SEP>>, initial_slashes) \o body
         IN IF res = <<>> THEN DOT ELSE res

(* posixpath.abspath, with the process's working directory c *)
abspath(c, path) ==
    normpath(IF StartsWith(path, <<SEP>>) THEN path ELSE join(c, path))

----------------------------------------------------------------------------
(* The filesystem *)

(* the names a directory may bear: two ordinary names and an excluded one *)
DirNames == { <<"a">>, <<"b">>, <<"d","i","s","t">> }

(* the names a file may bear; a file may bear an excluded name too *)
FileNames == { <<"a">>, <<"d","i","s","t">> }

NamesOf(k) == IF k = "dir" THEN DirNames ELSE FileNames

Kinds == {"dir", "file"}

(* the calls: the working directory of the process and the root string.    *)
(* "." is what the program itself passes; in "/" its base name is empty;   *)
(* "a/" ends in a separator; "a/b" can occur again in the path of a        *)
(* directory a/b/a/b                                                       *)
Calls ==
    { [cwd |-> <<SEP, "w">>, startpath |-> <<".">>],
      [cwd |-> <<SEP>>, startpath |-> <<".">>],
      [cwd |-> <<SEP, "w">>, startpath |-> <<"a", SEP>>],
      [cwd |-> <<SEP, "w">>, startpath |-> <<"a", SEP, "b">>] }

(* the entries a directory may hold *)
EntryChoices ==
    { e \in [parent : 0..(MaxEntries - 1), kind : Kinds, name : DirNames \cup FileNames] :
        e.name \in NamesOf(e.kind) }

(* tree t may be extended by entry e: its parent is a directory not before *)
(* the last entry's parent (entries are numbered level by level, a         *)
(* directory's entries in their enumeration order) and its name is new in  *)
(* that directory                                                          *)
CanExtend(t, e) ==
    /\ e.parent <= Len(t)
    /\ t # << >> => e.parent >= t[Len(t)].parent
    /\ e.parent = 0 \/ t[e.parent].kind = "dir"
    /\ \A i \in 1..Len(t) : t[i].parent = e.parent => t[i].name # e.name

RECURSIVE TreesOfSize(_)
(* the trees with n entries below the root *)
TreesOfSize(n) ==
    IF n = 0 THEN { << >> }
    ELSE { Append(q[1], q[2]) :
             q \in { r \in TreesOfSize(n - 1) \X EntryChoices : CanExtend(r[1], r[2]) } }

Dirs(t) == {0} \cup { i \in 1..Len(t) : t[i].kind = "dir" }

RECURSIVE Depth(_, _)
(* the number of directory levels between the root and entry d *)
Depth(t, d) == IF d = 0 THEN 0 ELSE 1 + Depth(t, t[d].parent)

RECURSIVE Ancestors(_, _)
(* the directories strictly above entry d, the root included *)
Ancestors(t, d) == IF d = 0 THEN {} ELSE {t[d].parent} \cup Ancestors(t, t[d].parent)

Ids(t) == [i \in 1..Len(t) |-> i]

(* variant: the files already written to the output are left out (a set   *)
(* of names seen so far that outlives the call)                            *)
ScanFilesUnseen(d) ==
    SelectSeq(Ids(fs), LAMBDA i : /\ fs[i].parent = d /\ fs[i].kind # "dir"
                                  /\ \A k \in 1..Len(out) : out[k].node # i)

(* os.scandir + entry.is_dir(): the names of directory d's entries, split  *)
(* into directories and the rest, each in enumeration order                *)
ScanDirs(d) == SelectSeq(Ids(fs), LAMBDA i : fs[i].parent = d /\ fs[i].kind = "dir")

ScanFiles(d) == SelectSeq(Ids(fs), LAMBDA i : fs[i].parent = d /\ fs[i].kind # "dir")

----------------------------------------------------------------------------
(* generate_tree *)

(* variant: dirs = [...] rebinds the name and leaves os.walk's list alone *)
FilterDirsRebound(dirs) == dirs

(* dirs[:] = [d for d in dirs if d not in exclude_dirs] *)
FilterDirs(dirs) == SelectSeq(dirs, LAMBDA i : fs[i].name \notin exclude_dirs)

(* level = root.replace(startpath, '').count(os.sep) *)
Level(root, start) == Count(Replace(root, start), SEP)

(* variant: basename(startpath) or startpath, without abspath *)
HeaderNameNoAbspath(c, start) ==
    IF basename(start) # <<>> THEN basename(start) ELSE start

(* basename(abspath(startpath)) or startpath *)
HeaderName(c, start) ==
    IF basename(abspath(c, start)) # <<>> THEN basename(abspath(c, start)) ELSE start

HeaderLine(c, start) == HeaderPrefix \o HeaderName(c, start)

SeparatorLine == Repeat(<<"=">>, SeparatorWidth)

(* variant: the directory line one unit to the left, indent = unit * (level - 1) *)
DirLineOutdented(root, level) ==
    Repeat(IndentUnit, level - 1) \o BranchConnector \o basename(root) \o <<SEP>>

(* f'{indent}u251Cu2500u2500 {os.path.basename(root)}/' with indent = unit * level *)
DirLine(root, level) ==
    Repeat(IndentUnit, level) \o BranchConnector \o basename(root) \o <<SEP>>

(* variant: i == len(files), never true of a 0-based index *)
ConnectorOffByOne(i, n) == IF i = n THEN LastConnector ELSE BranchConnector

(* connector = last-file connector if i == len(files) - 1 else branch connector *)
Connector(i, n) == IF i = n - 1 THEN LastConnector ELSE BranchConnector

(* variant: sub_indent = unit * level *)
FileLineSameIndent(level, i, n, f) ==
    Repeat(IndentUnit, level) \o Connector(i, n) \o f

(* f'{sub_indent}{connector}{f}' with sub_indent = unit * (level + 1); i is 0-based *)
FileLine(level, i, n, f) ==
    Repeat(IndentUnit, level + 1) \o Connector(i, n) \o f

(* the lines one iteration of the loop prints for directory d at path root *)
VisitLines(d, root) ==
    LET level == Level(root, startpath)
        files == ScanFiles(d)
        dirline == IF root # startpath
                   THEN << [kind |-> "dir", node |-> d, text |-> DirLine(root, level)] >>
                   ELSE << >>
    IN dirline \o
       [i \in 1..Len(files) |->
           [kind |-> "file", node |-> files[i],
            text |-> FileLine(level, i - 1, Len(files), fs[files[i]].name)]]

(* variant: the surviving directories are queued behind the pending ones  *)
(* (breadth-first)                                                         *)
DescendBreadthFirst(pending, top, dirs) ==
    pending \o
    [i \in 1..Len(dirs) |-> [node |-> dirs[i], path |-> join(top, fs[dirs[i]].name)]]

(* variant: the subdirectories are not walked (a flat listing) *)
DescendNever(pending, top, dirs) == pending

(* os.walk, top-down: after the yield the surviving directories are walked *)
(* in order, each before the directories still pending                     *)
Descend(pending, top, dirs) ==
    [i \in 1..Len(dirs) |-> [node |-> dirs[i], path |-> join(top, fs[dirs[i]].name)]]
    \o pending

(* variant: the error of os.scandir ends the whole walk *)
AbortWalk(pending) == << >>

(* os.walk with onerror=None: a failing os.scandir ends the walk of that   *)
(* directory only                                                          *)
OnScandirError(pending) == pending

Init ==
    /\ \E c \in Calls : cwd = c.cwd /\ startpath = c.startpath
    /\ \E n \in 0..MaxEntries : fs \in TreesOfSize(n)
    /\ bad \in { {} } \cup { {d} : d \in Dirs(fs) }
    /\ pc = "start"
    /\ stack = << >>
    /\ out = << >>
    /\ scanned = << >>
    /\ visits = << >>
    /\ run = 1
    /\ mark = 0

(* lines 18-19 and the call of os.walk(startpath) *)
Start ==
    /\ pc = "start"
    /\ out' = out \o << [kind |-> "header", node |-> -1, text |-> HeaderLine(cwd, startpath)],
                        [kind |-> "separator", node |-> -1, text |-> SeparatorLine] >>
    /\ stack' = << [node |-> 0, path |-> startpath] >>
    /\ pc' = "walk"
    /\ UNCHANGED <<cwd, startpath, fs, bad, scanned, visits, run, mark>>

(* os.walk lists the next directory and yields it; one iteration of the    *)
(* loop body, lines 21-37                                                  *)
Visit ==
    /\ pc = "walk"
    /\ stack # << >>
    /\ LET top == Head(stack).path
           d == Head(stack).node
       IN /\ d \notin bad
          /\ scanned' = Append(scanned, d)
          /\ visits' = Append(visits, [node |-> d, root |-> top,
                                       level |-> Level(top, startpath)])
          /\ out' = out \o VisitLines(d, top)
          /\ stack' = Descend(Tail(stack), top, FilterDirs(ScanDirs(d)))
    /\ UNCHANGED <<cwd, startpath, fs, bad, pc, run, mark>>

(* os.scandir raises OSError inside os.walk: nothing is yielded for the    *)
(* directory and the walk goes on                                          *)
SkipUnreadable ==
    /\ pc = "walk"
    /\ stack # << >>
    /\ Head(stack).node \in bad
    /\ scanned' = Append(scanned, Head(stack).node)
    /\ stack' = OnScandirError(Tail(stack))
    /\ UNCHANGED <<cwd, startpath, fs, bad, pc, out, visits, run, mark>>

(* the generator is exhausted: generate_tree returns *)
Finish ==
    /\ pc = "walk"
    /\ stack = << >>
    /\ pc' = "done"
    /\ UNCHANGED <<cwd, startpath, fs, bad, stack, out, scanned, visits, run, mark>>

Next == Start \/ Visit \/ SkipUnreadable \/ Finish

Spec == Init /\ [][Next]_vars

(* generate_tree is called again on the same root (a second run of the     *)
(* program): standard output goes on after what the first run wrote        *)
Rerun ==
    /\ pc = "done"
    /\ run = 1
    /\ run' = 2
    /\ mark' = Len(out)
    /\ pc' = "start"
    /\ scanned' = << >>
    /\ visits' = << >>
    /\ UNCHANGED <<cwd, startpath, fs, bad, stack, out>>

NextTwice == Next \/ Rerun

SpecTwice == Init /\ [][NextTwice]_vars

----------------------------------------------------------------------------
(* What the properties speak of *)

(* the seven excluded names, as the specification lists them *)
SevenNames ==
    { <<"m","o","d","u","l","e","s">>,
      <<"n","o","d","e","_","m","o","d","u","l","e","s">>,
      <<".","g","i","t">>,
      <<"_","_","p","y","c","a","c","h","e","_","_">>,
      <<".","v","s","c","o","d","e">>,
      <<"d","i","s","t">>,
      <<"b","u","i","l","d">> }

ExcludedDir(n) == n # 0 /\ fs[n].kind = "dir" /\ fs[n].name \in SevenNames

(* entry n is an excluded-name directory or lies beneath one *)
UnderExcluded(n) == ExcludedDir(n) \/ \E a \in Ancestors(fs, n) : ExcludedDir(a)

(* entry n is a directory whose listing fails, or lies beneath one *)
UnderFailed(n) == n \in bad \/ \E a \in Ancestors(fs, n) : a \in bad

Entries == 1..Len(fs)

LinesOf(n) == { i \in 1..Len(out) : out[i].node = n }

LineOf(n) == out[CHOOSE i \in LinesOf(n) : TRUE]

ScannedSet == { scanned[i] : i \in 1..Len(scanned) }

VisitedSet == { visits[i].node : i \in 1..Len(visits) }

FilesOf(d) == { n \in Entries : fs[n].parent = d /\ fs[n].kind = "file" }

(* the directory a tree line belongs to: the directory itself, or the      *)
(* directory holding the file                                              *)
Owner(i) == IF out[i].kind = "dir" THEN out[i].node ELSE fs[out[i].node].parent

InSubtree(n, d) == n = d \/ d \in Ancestors(fs, n)

TreeLines == { i \in 1..Len(out) : out[i].kind \in {"dir", "file"} }

----------------------------------------------------------------------------
(* C1: an excluded-name subdirectory, at any depth, and everything beneath *)
(* it has no line in the output, and its contents are never enumerated (no *)
(* listing of it is attempted, so an unreadable one causes no error).      *)
C1_ExcludedNeverVisited ==
    /\ pc # "error"
    /\ \A n \in Entries :
          UnderExcluded(n) => LinesOf(n) = {} /\ n \notin ScannedSet

(* an unreadable excluded directory with contents, two levels down, in a   *)
(* finished run that visited its parent                                    *)
C1_Witness ==
    /\ pc = "done"
    /\ \E n \in Entries :
          /\ ExcludedDir(n)
          /\ Depth(fs, n) >= 2
          /\ n \in bad
          /\ \E m \in Entries : fs[m].parent = n
          /\ fs[n].parent \in VisitedSet

(* C2: after a run on a readable tree, every non-root directory and every  *)
(* file that is not an excluded-name directory or beneath one has exactly  *)
(* one line, and nothing else has a line.                                  *)
C2_EachEntryOnce ==
    (pc = "done" /\ bad = {}) =>
        /\ \A n \in Entries :
              Cardinality(LinesOf(n)) = IF UnderExcluded(n) THEN 0 ELSE 1
        /\ Cardinality(TreeLines) = Cardinality({ n \in Entries : ~UnderExcluded(n) })
        /\ Len(out) = 2 + Cardinality(TreeLines)

(* a finished run on a readable tree that holds an excluded directory with *)
(* contents beside a directory with a file                                 *)
C2_Witness ==
    /\ pc = "done"
    /\ bad = {}
    /\ \E n, m \in Entries : ExcludedDir(n) /\ fs[m].parent = n
    /\ \E n, m \in Entries :
          /\ fs[n].kind = "dir" /\ ~UnderExcluded(n)
          /\ fs[m].parent = n /\ fs[m].kind = "file"

(* C3, as claimed: the first failing directory listing ends the run in an  *)
(* error state, and no directory is visited after it.                      *)
C3_Original ==
    \A i \in 1..Len(scanned) :
        scanned[i] \in bad => pc = "error" /\ i = Len(scanned)

(* C3, amended: a failing directory listing is ignored.  The run never     *)
(* enters an error state; when it has finished, exactly the directories    *)
(* that are neither excluded nor beneath an excluded or a failing          *)
(* directory have been listed, once each, and an entry has one line if it  *)
(* is neither under an excluded directory nor a failing directory or       *)
(* beneath one, and no line otherwise.                                     *)
C3_FailureIgnored ==
    /\ pc \in {"start", "walk", "done"}
    /\ pc = "done" =>
          /\ \A d \in Dirs(fs) :
                Cardinality({ i \in 1..Len(scanned) : scanned[i] = d })
                  = IF UnderExcluded(d) \/ (\E a \in Ancestors(fs, d) : a \in bad)
                    THEN 0 ELSE 1
          /\ \A n \in Entries :
                Cardinality(LinesOf(n))
                  = IF UnderExcluded(n) \/ UnderFailed(n) THEN 0 ELSE 1

(* a listing failed and a later directory was still visited and printed *)
C3_Witness ==
    /\ pc = "done"
    /\ \E i, j \in 1..Len(scanned) :
          /\ i < j
          /\ scanned[i] \in bad
          /\ scanned[j] \in VisitedSet
          /\ LinesOf(scanned[j]) # {}

(* the name of the root directory, read off the path: the last component   *)
(* of the working directory followed by the root string that is neither    *)
(* empty nor ".", and the root string itself when there is none            *)
RootBaseName ==
    LET full == IF StartsWith(startpath, <<SEP>>) THEN startpath
                ELSE cwd \o <<SEP>> \o startpath
        comps == SelectSeq(Split(full, SEP), LAMBDA x : x # << >> /\ x # <<".">>)
    IN IF comps = << >> THEN startpath ELSE comps[Len(comps)]

FortyEquals == [i \in 1..40 |-> "="]

HeaderPrinted == pc # "start" /\ run = 1

(* C4, as claimed: the first output line equals the base name of the root  *)
(* directory (the root string when the base name is empty) and the second  *)
(* is 40 '=' characters.                                                   *)
C4_Original ==
    HeaderPrinted =>
        /\ out[1].text = RootBaseName
        /\ out[2].text = FortyEquals

(* C4, amended: the first output line is "Project Structure: " followed by *)
(* the base name of the root directory (by the root string when the base   *)
(* name is empty), the second is 40 '=' characters, and both precede every *)
(* tree line.                                                              *)
C4_HeaderLabelled ==
    /\ (pc = "start" /\ run = 1) => out = << >>
    /\ HeaderPrinted =>
          /\ out[1].text =
                <<"P","r","o","j","e","c","t"," ","S","t","r","u","c","t","u","r","e",":"," ">>
                \o RootBaseName
          /\ out[2].text = FortyEquals
          /\ TreeLines = 3..Len(out)

(* a finished run that printed tree lines, from a root with an empty base  *)
(* name                                                                    *)
C4_Witness ==
    /\ pc = "done"
    /\ Len(out) > 2
    /\ cwd = <<SEP>>
    /\ startpath = <<".">>
    /\ out[1].text = HeaderPrefix \o <<".">>

(* the level the code computes for a directory at path p: the separators   *)
(* left in p once every occurrence of the root string is removed           *)
SeparatorsLeft(p) == Count(Replace(p, startpath), SEP)

(* C5, as claimed: a visited non-root directory at depth d has exactly one *)
(* directory line, indented by d-1 indent units.                           *)
C5_Original ==
    \A i \in 1..Len(visits) :
        LET n == visits[i].node
        IN n # 0 =>
              /\ Cardinality(LinesOf(n)) = 1
              /\ LineOf(n).text =
                    Repeat(<<BOX_V, " ", " ", " ">>, Depth(fs, n) - 1)
                    \o <<BOX_VR, BOX_H, BOX_H, " ">> \o fs[n].name \o <<"/">>

(* C5, amended: a visited non-root directory has exactly one directory     *)
(* line: the indent unit repeated L times, the branch connector, the base  *)
(* name and "/", where L is the level computed for the directory; the root *)
(* has no directory line.                                                  *)
C5_DirLineAtLevel ==
    /\ LinesOf(0) = {}
    /\ \A i \in 1..Len(visits) :
          LET n == visits[i].node
          IN n # 0 =>
                /\ Cardinality(LinesOf(n)) = 1
                /\ LineOf(n).kind = "dir"
                /\ LineOf(n).text =
                      Repeat(<<BOX_V, " ", " ", " ">>, SeparatorsLeft(visits[i].root))
                      \o <<BOX_VR, BOX_H, BOX_H, " ">> \o fs[n].name \o <<"/">>

(* directories one and two levels below the root "." were visited *)
C5_Witness ==
    /\ pc = "done"
    /\ startpath = <<".">>
    /\ \E i, j \in 1..Len(visits) :
          /\ Depth(fs, visits[i].node) = 1
          /\ Depth(fs, visits[j].node) = 2
          /\ Len(LineOf(visits[i].node).text) = 4 + 4 + Len(fs[visits[i].node].name) + 1

(* C6, as claimed: the line of a file in a visited directory at depth d    *)
(* starts with exactly d indent units, then the connector and the name.    *)
C6_Original ==
    \A i \in 1..Len(visits) :
        \A f \in FilesOf(visits[i].node) :
            /\ Cardinality(LinesOf(f)) = 1
            /\ \E c \in { <<BOX_VR, BOX_H, BOX_H, " ">>, <<BOX_UR, BOX_H, BOX_H, " ">> } :
                  LineOf(f).text =
                     Repeat(<<BOX_V, " ", " ", " ">>, Depth(fs, visits[i].node))
                     \o c \o fs[f].name

(* C6, amended: the line of a file in a visited directory starts with      *)
(* exactly L+1 indent units, then the connector and the name, where L is   *)
(* the level computed for the directory.                                   *)
C6_FileLineBelowLevel ==
    \A i \in 1..Len(visits) :
        \A f \in FilesOf(visits[i].node) :
            /\ Cardinality(LinesOf(f)) = 1
            /\ LineOf(f).kind = "file"
            /\ \E c \in { <<BOX_VR, BOX_H, BOX_H, " ">>, <<BOX_UR, BOX_H, BOX_H, " ">> } :
                  LineOf(f).text =
                     Repeat(<<BOX_V, " ", " ", " ">>, SeparatorsLeft(visits[i].root) + 1)
                     \o c \o fs[f].name

(* files were printed in the root "." and in a directory below it *)
C6_Witness ==
    /\ pc = "done"
    /\ startpath = <<".">>
    /\ \E f, g \in Entries :
          /\ fs[f].kind = "file" /\ fs[f].parent = 0
          /\ fs[g].kind = "file" /\ fs[g].parent # 0
          /\ LinesOf(f) # {} /\ LinesOf(g) # {}
          /\ Len(LineOf(f).text) = 4 + 4 + Len(fs[f].name)

(* the four characters before the name at the end of entry n's line *)
ConnectorOf(n) ==
    LET t == LineOf(n).text
    IN SubSeq(t, Len(t) - Len(fs[n].name) - 3, Len(t) - Len(fs[n].name))

(* C7: in a visited directory with n >= 1 files the line of the last file  *)
(* in enumeration order, and only that line, uses the last-file connector; *)
(* the other file lines use the branch connector; a directory without      *)
(* files has no file line.                                                 *)
C7_LastFileConnector ==
    \A i \in 1..Len(visits) :
        LET d == visits[i].node
            files == FilesOf(d)
        IN /\ \A f \in files :
                 /\ Cardinality(LinesOf(f)) = 1
                 /\ ConnectorOf(f) =
                       IF \A g \in files : g <= f
                       THEN <<BOX_UR, BOX_H, BOX_H, " ">>
                       ELSE <<BOX_VR, BOX_H, BOX_H, " ">>
           /\ Cardinality({ k \in 1..Len(out) : out[k].kind = "file" /\ Owner(k) = d })
                 = Cardinality(files)

(* visited directories with a single file and with several files *)
C7_Witness ==
    /\ pc = "done"
    /\ \E d \in VisitedSet : Cardinality(FilesOf(d)) = 1
    /\ \E d \in VisitedSet : Cardinality(FilesOf(d)) >= 2

(* C8: a second run on the same root and the unmodified tree writes the    *)
(* same lines as the first, and no step of a run changes the tree.         *)
C8_SameOutputTwice ==
    /\ [](run = 2 /\ pc = "done" =>
             /\ Len(out) = 2 * mark
             /\ \A i \in 1..mark : out[mark + i].text = out[i].text)
    /\ [][fs' = fs /\ bad' = bad /\ cwd' = cwd /\ startpath' = startpath]_vars

(* the second run has finished and printed tree lines, with a failing      *)
(* listing in the tree                                                     *)
C8_Witness ==
    /\ run = 2
    /\ pc = "done"
    /\ mark > 3
    /\ Len(out) = 2 * mark
    /\ bad # {}

(* C9: the output is top-down and depth-first.  For a printed non-root     *)
(* directory D: its directory line precedes its file lines, its file lines *)
(* precede every line of a directory beneath it, the lines of D's subtree  *)
(* are contiguous and precede the directory line of every sibling          *)
(* enumerated after D; directories are listed in that same order.          *)
C9_DepthFirstOrder ==
    /\ \A p \in TreeLines :
          (out[p].kind = "dir") =>
             LET d == out[p].node
             IN /\ \A j \in TreeLines :
                      (out[j].kind = "file" /\ Owner(j) = d) => p < j
                /\ \A j, l \in TreeLines :
                      (/\ out[j].kind = "file" /\ Owner(j) = d
                       /\ Owner(l) # d /\ InSubtree(Owner(l), d)) => j < l
                /\ \A j, l \in TreeLines :
                      (/\ InSubtree(Owner(j), d) /\ InSubtree(Owner(l), d) /\ j < l)
                         => \A m \in j..l : InSubtree(Owner(m), d)
                /\ \A q \in TreeLines :
                      (/\ out[q].kind = "dir"
                       /\ fs[out[q].node].parent = fs[d].parent
                       /\ out[q].node > d)
                         => \A l \in TreeLines : InSubtree(Owner(l), d) => l < q
    /\ \A i, j \in 1..Len(scanned) :
          (/\ scanned[i] # 0 /\ scanned[j] # 0 /\ scanned[i] < scanned[j]
           /\ fs[scanned[i]].parent = fs[scanned[j]].parent) => i < j

(* a directory with a file and a subdirectory, and a sibling after it,     *)
(* all printed                                                             *)
C9_Witness ==
    /\ pc = "done"
    /\ \E d, f, x, s \in Entries :
          /\ fs[d].kind = "dir" /\ fs[f].kind = "file" /\ fs[x].kind = "dir" /\ fs[s].kind = "dir"
          /\ fs[f].parent = d /\ fs[x].parent = d
          /\ fs[s].parent = fs[d].parent /\ s > d
          /\ LinesOf(d) # {} /\ LinesOf(f) # {} /\ LinesOf(x) # {} /\ LinesOf(s) # {}

(* C10: for every root string and every visited directory, the depth the   *)
(* code computes equals the number of directory levels between the root    *)
(* and the directory.                                                      *)
C10_LevelIsDepth ==
    \A i \in 1..Len(visits) : visits[i].level = Depth(fs, visits[i].node)

=============================================================================
